---- MODULE Spec2Model ----
(***************************************************************************)
(* Model of src/faster_neighbors_revisited.py: the refinement and          *)
(* individualization engine FasterNeighborsRevisited (plain, Servant and   *)
(* Master instances), its canonical ordering and its comparison.           *)
(***************************************************************************)
EXTENDS Integers, Sequences, FiniteSets, TLC

(***************************************************************************)
(* Bounds of the model.                                                    *)
(***************************************************************************)
MaxNodes == 4
MaxEdges == 3
MaxLabel == 1
BigLabel == 10
MaxPairNodes == 3
MaxProbeNodes == 3
MaxProbeLabel == 2
MaxMixedNodes == 3

(***************************************************************************)
(* Python built-ins used by the engine.                                    *)
(***************************************************************************)
Range(s) == {s[i] : i \in DOMAIN s}

\* a dict or list comprehension: the mapping with every value computed once
Dict(f) == f @@ <<>>

SetMax(S) == CHOOSE x \in S : \A y \in S : y <= x

SetMin(S) == CHOOSE x \in S : \A y \in S : x <= y

Max2(a, b) == IF a >= b THEN a ELSE b

\* cmp of two integers: -1, 0 or 1
CmpInt(a, b) == IF a < b THEN -1 ELSE IF a > b THEN 1 ELSE 0

\* the first comparison that decides: a if it is not 0, else b
OrElse(a, b) == IF a # 0 THEN a ELSE b

\* list comparison of two lists of integers (lexicographic, shorter first)
RECURSIVE CmpIntSeq(_, _)
CmpIntSeq(s, t) ==
    IF s = <<>> THEN (IF t = <<>> THEN 0 ELSE -1)
    ELSE IF t = <<>> THEN 1
    ELSE IF Head(s) # Head(t) THEN CmpInt(Head(s), Head(t))
    ELSE CmpIntSeq(Tail(s), Tail(t))

\* comparison of two tuples (int, int)
CmpPair(p, q) == IF p[1] # q[1] THEN CmpInt(p[1], q[1]) ELSE CmpInt(p[2], q[2])

\* list comparison of two lists of (int, int) tuples
RECURSIVE CmpPairSeq(_, _)
CmpPairSeq(s, t) ==
    IF s = <<>> THEN (IF t = <<>> THEN 0 ELSE -1)
    ELSE IF t = <<>> THEN 1
    ELSE IF Head(s) # Head(t) THEN CmpPair(Head(s), Head(t))
    ELSE CmpPairSeq(Tail(s), Tail(t))

\* list.sort(key=...) : a stable sort of seq; lt is the set of pairs <<a, b>>
\* of items whose keys satisfy key(a) < key(b)
RECURSIVE InsertSorted(_, _, _)
InsertSorted(s, x, lt) ==
    IF s = <<>> THEN <<x>>
    ELSE IF <<x, Head(s)>> \in lt THEN <<x>> \o s
    ELSE <<Head(s)>> \o InsertSorted(Tail(s), x, lt)

RECURSIVE StableSort(_, _)
StableSort(seq, lt) ==
    IF seq = <<>> THEN <<>>
    ELSE InsertSorted(StableSort(SubSeq(seq, 1, Len(seq) - 1), lt), seq[Len(seq)], lt)

\* sorted list of the labels of a set of nodes (neighbors.sort())
RECURSIVE SortedLabels(_, _)
SortedLabels(S, labels) ==
    IF S = {} THEN <<>>
    ELSE LET x == CHOOSE n \in S : \A m \in S : labels[n] <= labels[m]
         IN <<labels[x]>> \o SortedLabels(S \ {x}, labels)

\* sorted list of (int, int) tuples (label_pairings.sort())
RECURSIVE InsertPair(_, _)
InsertPair(s, p) ==
    IF s = <<>> THEN <<p>>
    ELSE IF CmpPair(p, Head(s)) = -1 THEN <<p>> \o s
    ELSE <<Head(s)>> \o InsertPair(Tail(s), p)

RECURSIVE SortPairs(_)
SortPairs(seq) ==
    IF seq = <<>> THEN <<>>
    ELSE InsertPair(SortPairs(SubSeq(seq, 1, Len(seq) - 1)), seq[Len(seq)])

(***************************************************************************)
(* Engine instances.  An instance is a record; nodewise is one of          *)
(* "Master", "Servant" and "False" (a plain instance).                     *)
(***************************************************************************)
IsNodewise(nodewise) == nodewise # "False"

\* the sort key of a node in plain mode: (label, sorted neighbor labels)
PlainKey(node, mapping_to_neighbors, internal_labels) ==
    <<internal_labels[node], SortedLabels(mapping_to_neighbors[node], internal_labels)>>

\* tuple comparison of two plain keys
CmpPlainKey(k1, k2) ==
    IF k1[1] # k2[1] THEN CmpInt(k1[1], k2[1]) ELSE CmpIntSeq(k1[2], k2[2])

\* comparison of two canonical matrices (lists of lists of 0/1)
RECURSIVE CmpMatrix(_, _)
CmpMatrix(s, t) ==
    IF s = <<>> THEN (IF t = <<>> THEN 0 ELSE -1)
    ELSE IF t = <<>> THEN 1
    ELSE IF Head(s) # Head(t) THEN CmpIntSeq(Head(s), Head(t))
    ELSE CmpMatrix(Tail(s), Tail(t))

\* the loop over label_definitions of two plain instances
RECURSIVE CmpDefinitions(_, _, _)
CmpDefinitions(sd, od, i) ==
    IF i > Len(sd) THEN 0
    ELSE IF sd[i][1] < od[i][1] THEN -1
    ELSE IF sd[i][1] > od[i][1] THEN 1
    ELSE OrElse(CmpIntSeq(sd[i][2], od[i][2]), CmpDefinitions(sd, od, i + 1))

\* the verdict of full_comparison on a top-level and a plain instance
MixedComparison(self_nodewise) == IF IsNodewise(self_nodewise) THEN 1 ELSE -1

\* a variant whose nodewise branch stops after ordered_labels (lines 118-121)
\* and never looks at the matrices
full_comparison_of_labels(self, other) ==
    IF IsNodewise(self.nodewise) # IsNodewise(other.nodewise)
    THEN MixedComparison(self.nodewise)
    ELSE IF IsNodewise(self.nodewise)
    THEN CmpIntSeq(self.ordered_labels, other.ordered_labels)
    ELSE OrElse(CmpPairSeq(self.label_pairings, other.label_pairings),
                CmpDefinitions(self.label_definitions, other.label_definitions, 1))

full_comparison(self, other) ==
    IF IsNodewise(self.nodewise) # IsNodewise(other.nodewise)
    THEN MixedComparison(self.nodewise)
    ELSE IF IsNodewise(self.nodewise)
    THEN OrElse(CmpIntSeq(self.ordered_labels, other.ordered_labels),
                CmpMatrix(self.matrix, other.matrix))
    ELSE OrElse(CmpPairSeq(self.label_pairings, other.label_pairings),
                CmpDefinitions(self.label_definitions, other.label_definitions, 1))

\* tuple comparison of two nodewise keys (label, plain instance): the first
\* elements that are not == decide by <
NodewiseKeyCmp(k1, k2) ==
    IF k1[1] # k2[1] THEN CmpInt(k1[1], k2[1]) ELSE full_comparison(k1[2], k2[2])

\* the scan of assign_new_labels_for_sorted_ids; ne is the set of pairs of
\* nodes whose keys are unequal
RECURSIVE AssignFrom(_, _, _, _, _, _)
AssignFrom(sorted_ids, ne, i, next_numeric_label, new_labels, defs) ==
    IF i > Len(sorted_ids)
    THEN [new_labels |-> new_labels, label_definitions |-> defs]
    ELSE IF i = 1 \/ <<sorted_ids[i - 1][1], sorted_ids[i][1]>> \in ne
    THEN AssignFrom(sorted_ids, ne, i + 1, next_numeric_label + 1,
                    (sorted_ids[i][1] :> (next_numeric_label + 1)) @@ new_labels,
                    Append(defs, sorted_ids[i][2]))
    ELSE AssignFrom(sorted_ids, ne, i + 1, next_numeric_label,
                    (sorted_ids[i][1] :> next_numeric_label) @@ new_labels, defs)

\* a variant that never advances next_numeric_label past its first value
\* (every key is taken to equal its predecessor)
assign_one_label(sorted_ids, ne) ==
    AssignFrom(sorted_ids, {}, 1, -1, <<>>, <<>>)

assign_new_labels_for_sorted_ids(sorted_ids, ne) ==
    AssignFrom(sorted_ids, ne, 1, -1, <<>>, <<>>)

\* a variant that stores the node whether or not key is already in dict
SetAlways(dict, key, node) ==
    (key :> node) @@ [k \in DOMAIN dict \ {key} |-> dict[k]]

\* dict[key] = node unless key is already in dict
SetDefault(dict, key, node) == IF key \in DOMAIN dict THEN dict ELSE (key :> node) @@ dict

\* the scan of are_new_labels_effectively_the_same
RECURSIVE SameFrom(_, _, _, _, _, _)
SameScan(nodes, internal_labels, new_labels, i, old_ids, new_ids) ==
    IF old_ids[internal_labels[nodes[i]]] # new_ids[new_labels[nodes[i]]] THEN FALSE
    ELSE SameFrom(nodes, internal_labels, new_labels, i + 1, old_ids, new_ids)

SameFrom(nodes, internal_labels, new_labels, i, old_ids, new_ids) ==
    IF i > Len(nodes) THEN TRUE
    ELSE SameScan(nodes, internal_labels, new_labels, i,
                  SetDefault(old_ids, internal_labels[nodes[i]], nodes[i]),
                  SetDefault(new_ids, new_labels[nodes[i]], nodes[i]))

\* a variant that tests the label values themselves instead of the groups
are_new_labels_numerically_the_same(nodes, internal_labels, new_labels) ==
    \A i \in DOMAIN nodes : internal_labels[nodes[i]] = new_labels[nodes[i]]

are_new_labels_effectively_the_same(nodes, internal_labels, new_labels) ==
    SameFrom(nodes, internal_labels, new_labels, 1, <<>>, <<>>)

\* the list of (node, key) in the order the sort left the nodes in
IdsInOrder(order, key) == Dict([i \in 1..Len(order) |-> <<order[i], key[order[i]]>>])

\* the keys of get_new_ids_in_order in a plain instance
PlainKeys(nodes, mapping_to_neighbors, internal_labels) ==
    Dict([n \in Range(nodes) |-> PlainKey(n, mapping_to_neighbors, internal_labels)])

\* get_new_ids_in_order of a plain instance: the list of (node, key) sorted by key
PlainIds(nodes, key) ==
    IdsInOrder(StableSort(nodes, {p \in Range(nodes) \X Range(nodes) :
                                     CmpPlainKey(key[p[1]], key[p[2]]) = -1}),
               key)

\* sorting and labelling the keys of a plain instance
PlainAssign(nodes, key) ==
    assign_new_labels_for_sorted_ids(
        PlainIds(nodes, key),
        {p \in Range(nodes) \X Range(nodes) : key[p[1]] # key[p[2]]})

\* one round of the refinement loop of a plain instance
PlainRound(nodes, mapping_to_neighbors, internal_labels) ==
    PlainAssign(nodes, PlainKeys(nodes, mapping_to_neighbors, internal_labels))

\* the refinement loop of a plain instance, run to its break; a is what the
\* current round assigned
RECURSIVE PlainLoop(_, _, _, _)
PlainTest(nodes, mapping_to_neighbors, internal_labels, counter, a) ==
    IF are_new_labels_effectively_the_same(nodes, internal_labels, a.new_labels)
    THEN [internal_labels |-> internal_labels,
          label_definitions |-> a.label_definitions,
          counter |-> counter]
    ELSE PlainLoop(nodes, mapping_to_neighbors, a.new_labels, counter + 1)

PlainLoop(nodes, mapping_to_neighbors, internal_labels, counter) ==
    PlainTest(nodes, mapping_to_neighbors, internal_labels, counter,
              PlainRound(nodes, mapping_to_neighbors, internal_labels))

\* label_pairings of an instance that is not the Master
LabelPairings(nodes, internal_labels, external_labels) ==
    SortPairs(Dict([i \in 1..Len(nodes) |->
                       <<internal_labels[nodes[i]], external_labels[nodes[i]]>>]))

\* the attributes of a finished plain instance; r is what its loop returned
PlainAttributes(nodes, external_labels, r) ==
    [nodewise |-> "False",
     internal_labels |-> r.internal_labels,
     label_definitions |-> r.label_definitions,
     label_pairings |-> LabelPairings(nodes, r.internal_labels, external_labels),
     counter |-> r.counter]

\* FasterNeighborsRevisited(G, external_labels, nodewise=False) on a non-empty graph
PlainInstance(nodes, mapping_to_neighbors, external_labels) ==
    PlainAttributes(nodes, external_labels,
                    PlainLoop(nodes, mapping_to_neighbors,
                              Dict([n \in Range(nodes) |-> external_labels[n]]), 0))

(***************************************************************************)
(* Graphs.  An input graph is a record [nodes, edges]: nodes is the list   *)
(* G.nodes() (insertion order) and edges the list G.edges() of pairs.      *)
(***************************************************************************)
\* node_list.sort()
RECURSIVE SortNodes(_)
SortNodes(S) ==
    IF S = {} THEN <<>>
    ELSE <<SetMin(S)>> \o SortNodes(S \ {SetMin(S)})

\* {n: set(G.neighbors(n)) for n in G.nodes()} of an input graph
NeighborsOf(G) ==
    Dict([n \in Range(G.nodes) |->
             {m \in Range(G.nodes) : \E i \in DOMAIN G.edges :
                 G.edges[i] = <<n, m>> \/ G.edges[i] = <<m, n>>}])

\* a variant that finds an edge only in the orientation G.edges() lists it
has_edge_as_listed(G, u, v) ==
    \E i \in DOMAIN G.edges : G.edges[i] = <<u, v>>

\* G.has_edge(u, v)
has_edge(G, u, v) ==
    \E i \in DOMAIN G.edges : G.edges[i] = <<u, v>> \/ G.edges[i] = <<v, u>>

\* the loops of expand_graph: next_node_label is the largest node, and the
\* i-th edge of G.edges() becomes the node next_node_label + i
ExpandedGraph(G, external_labels, edge_label, node_list, next_node_label) ==
    [nodes |-> node_list \o [i \in 1..Len(G.edges) |-> next_node_label + i],
     mapping_to_neighbors |->
         [n \in Range(node_list) |->
             {next_node_label + i : i \in {j \in DOMAIN G.edges : n \in Range(G.edges[j])}}]
         @@ [e \in {next_node_label + i : i \in DOMAIN G.edges} |->
                Range(G.edges[e - next_node_label])],
     external_labels |->
         [n \in Range(node_list) |-> external_labels[n]]
         @@ [e \in {next_node_label + i : i \in DOMAIN G.edges} |-> edge_label]]

\* expand_graph on a graph with at least one node
expand_graph(G, external_labels) ==
    ExpandedGraph(G, external_labels,
                  SetMax({external_labels[n] : n \in Range(G.nodes)}) + 1,
                  SortNodes(Range(G.nodes)),
                  SetMax(Range(G.nodes)))

\* nx.single_source_shortest_path_length: breadth-first distances
RECURSIVE ShortestFrom(_, _, _, _)
ShortestStep(mapping_to_neighbors, dist, next, d) ==
    IF next = {} THEN dist
    ELSE ShortestFrom(mapping_to_neighbors, [n \in next |-> d + 1] @@ dist, next, d + 1)

ShortestFrom(mapping_to_neighbors, dist, frontier, d) ==
    ShortestStep(mapping_to_neighbors, dist,
                 UNION {mapping_to_neighbors[u] : u \in frontier} \ DOMAIN dist, d)

single_source_shortest_path_length(mapping_to_neighbors, node) ==
    ShortestFrom(mapping_to_neighbors, (node :> 0), {node}, 0)

\* higher_than_any_internal_label
HigherThanAny(nodes, internal_labels) ==
    Max2(Len(nodes), SetMax({internal_labels[n] : n \in Range(nodes)}) + 1)

\* path_labels: the distances reached, and max_dist for every other node
PathLabels(nodes, reached, max_dist) ==
    Dict([n \in Range(nodes) |-> IF n \in DOMAIN reached THEN reached[n] ELSE max_dist])

PathLabelsFrom(nodes, reached) ==
    PathLabels(nodes, reached, SetMax({reached[n] : n \in DOMAIN reached}) + 1)

\* the largest value of the head start of the overlay of node: path length
\* plus the basic refinement times the node count
HeadStartMax(nodes, basic_overlay, path_labels) ==
    SetMax({path_labels[n] + basic_overlay[n] * Len(nodes) : n \in Range(nodes)})

\* the value given to node itself in its own initial overlay
IndividualValue(max_value) == max_value + 1

\* nodewise_overlays[node] as the constructor leaves it: the external
\* labels, and for node itself one more than the largest head-start value
OverlayOf(nodes, external_labels, node, max_value) ==
    Dict([n \in Range(nodes) |->
             IF n = node THEN IndividualValue(max_value) ELSE external_labels[n]])

InitialOverlay(nodes, mapping_to_neighbors, external_labels, basic_overlay, node) ==
    OverlayOf(nodes, external_labels, node,
              HeadStartMax(nodes, basic_overlay,
                  PathLabelsFrom(nodes,
                      single_source_shortest_path_length(mapping_to_neighbors, node))))

OverlaysFrom(nodes, mapping_to_neighbors, external_labels, basic_overlay) ==
    Dict([node \in Range(nodes) |->
             InitialOverlay(nodes, mapping_to_neighbors, external_labels,
                            basic_overlay, node)])

InitialOverlays(nodes, mapping_to_neighbors, external_labels) ==
    OverlaysFrom(nodes, mapping_to_neighbors, external_labels,
                 PlainInstance(nodes, mapping_to_neighbors, external_labels).internal_labels)

(***************************************************************************)
(* Refinement of a nodewise (Master or Servant) instance.                  *)
(***************************************************************************)
\* the synthetic label map handed to the plain sub-instance of node
OverlayLabels(nodes, overlay, higher_than_any_internal_label, internal_labels) ==
    Dict([n \in Range(nodes) |->
             overlay[n] * higher_than_any_internal_label + internal_labels[n]])

\* the plain sub-instances spawned by get_new_ids_in_order, one per node
SubInstances(nodes, mapping_to_neighbors, internal_labels, higher_than_any_internal_label, nodewise_overlays) ==
    Dict([node \in Range(nodes) |->
             PlainInstance(nodes, mapping_to_neighbors,
                           OverlayLabels(nodes, nodewise_overlays[node],
                                         higher_than_any_internal_label, internal_labels))])

\* the comparison of the keys of every two nodes of a nodewise instance
NodewiseCmp(nodes, key) ==
    Dict([p \in Range(nodes) \X Range(nodes) |-> NodewiseKeyCmp(key[p[1]], key[p[2]])])

\* get_new_ids_in_order and assign_new_labels_for_sorted_ids of a nodewise
\* instance, given its keys and their comparison
NodewiseSorted(nodes, key, cmp) ==
    assign_new_labels_for_sorted_ids(
        IdsInOrder(StableSort(nodes, {p \in Range(nodes) \X Range(nodes) : cmp[p] = -1}),
                   key),
        {p \in Range(nodes) \X Range(nodes) : cmp[p] # 0})

NodewiseAssign(nodes, key) == NodewiseSorted(nodes, key, NodewiseCmp(nodes, key))

\* what a round leaves behind: the new labels, the label definitions and
\* the overlays, each replaced by the labels of its sub-instance
NodewiseResult(nodes, a, subs) ==
    [new_labels |-> a.new_labels,
     label_definitions |-> a.label_definitions,
     nodewise_overlays |-> Dict([node \in Range(nodes) |-> subs[node].internal_labels])]

NodewiseWith(nodes, internal_labels, subs) ==
    NodewiseResult(nodes,
        NodewiseAssign(nodes, Dict([n \in Range(nodes) |-> <<internal_labels[n], subs[n]>>])),
        subs)

\* one round of the refinement loop of a nodewise instance
NodewiseRound(nodes, mapping_to_neighbors, internal_labels, higher_than_any_internal_label, nodewise_overlays) ==
    NodewiseWith(nodes, internal_labels,
                 SubInstances(nodes, mapping_to_neighbors, internal_labels,
                              higher_than_any_internal_label, nodewise_overlays))

\* the refinement loop of a nodewise instance, run to its break; r is what
\* the current round left behind
RECURSIVE NodewiseLoop(_, _, _, _, _, _)
NodewiseTest(nodes, mapping_to_neighbors, internal_labels, higher_than_any_internal_label, counter, r) ==
    IF are_new_labels_effectively_the_same(nodes, internal_labels, r.new_labels)
    THEN [internal_labels |-> internal_labels,
          label_definitions |-> r.label_definitions,
          nodewise_overlays |-> r.nodewise_overlays,
          counter |-> counter]
    ELSE NodewiseLoop(nodes, mapping_to_neighbors, r.new_labels,
                      higher_than_any_internal_label, r.nodewise_overlays, counter + 1)

NodewiseLoop(nodes, mapping_to_neighbors, internal_labels, higher_than_any_internal_label, nodewise_overlays, counter) ==
    NodewiseTest(nodes, mapping_to_neighbors, internal_labels,
                 higher_than_any_internal_label, counter,
                 NodewiseRound(nodes, mapping_to_neighbors, internal_labels,
                               higher_than_any_internal_label, nodewise_overlays))

\* the attributes of a finished Servant; x is its expanded graph and r what
\* its loop returned
ServantAttributes(x, r) ==
    [nodewise |-> "Servant",
     internal_labels |-> r.internal_labels,
     label_definitions |-> r.label_definitions,
     label_pairings |-> LabelPairings(x.nodes, r.internal_labels, x.external_labels),
     counter |-> r.counter]

ServantOn(x) ==
    ServantAttributes(x,
        NodewiseLoop(x.nodes, x.mapping_to_neighbors, x.external_labels,
                     HigherThanAny(x.nodes, x.external_labels),
                     InitialOverlays(x.nodes, x.mapping_to_neighbors, x.external_labels),
                     0))

\* FasterNeighborsRevisited(G, external_labels, nodewise="Servant") on a
\* graph with at least one node
ServantInstance(G, external_labels) == ServantOn(expand_graph(G, external_labels))

(***************************************************************************)
(* Canonical ordering.  ordering is a list of pairs <<node, key>>.         *)
(***************************************************************************)
\* the renumbering scan at the end of further_sort
RECURSIVE Renumber(_, _, _, _, _)
Renumber(sorted, i, next_label, prev_value, acc) ==
    IF i > Len(sorted) THEN acc
    ELSE IF sorted[i][2] # prev_value
    THEN Renumber(sorted, i + 1, next_label + 1, sorted[i][2],
                  Append(acc, <<sorted[i][1], next_label + 1>>))
    ELSE Renumber(sorted, i + 1, next_label, prev_value,
                  Append(acc, <<sorted[i][1], next_label>>))

RenumberAll(sorted) == Renumber(sorted, 2, 0, sorted[1][2], <<<<sorted[1][1], 0>>>>)

\* the sort of further_sort, on the list with its keys paired with the labels
SortPaired(paired) ==
    StableSort(paired, {p \in Range(paired) \X Range(paired) : CmpPair(p[1][2], p[2][2]) = -1})

\* further_sort on a non-empty list
further_sort(initial_list, new_labels) ==
    RenumberAll(SortPaired(
        Dict([i \in 1..Len(initial_list) |->
                 <<initial_list[i][1],
                   <<initial_list[i][2], new_labels[initial_list[i][1]]>> >>])))

\* the end of the run of keys tied with the one at selected_index (0-based)
RunEnd(ordering, selected_index) ==
    SetMax({j \in selected_index + 1 .. Len(ordering) - 1 :
               \A k \in selected_index + 1 .. j :
                   ordering[selected_index + 1][2] = ordering[k + 1][2]}) + 1

\* the while loop that skips runs of tied keys (the part marked [A])
RECURSIVE SkipTies(_, _)
SkipTies(ordering, selected_index) ==
    IF selected_index < Len(ordering)
       /\ selected_index + 1 < Len(ordering)
       /\ ordering[selected_index + 1][2] = ordering[selected_index + 2][2]
    THEN SkipTies(ordering, RunEnd(ordering, selected_index))
    ELSE selected_index

\* a variant: the condition the source has commented out at line 260, which
\* looks at the head of the list only
HeadIsTied(ordering, selected_index) ==
    Len(ordering) > 1 /\ ordering[1][2] = ordering[2][2]

\* the test that sends an iteration to the recursive tie-break
NeedsTieBreak(ordering, selected_index) ==
    \/ selected_index >= Len(ordering)
    \/ /\ selected_index + 1 < Len(ordering)
       /\ ordering[selected_index + 1][2] = ordering[selected_index + 2][2]

\* the label map handed to the Servant: placed nodes get their position,
\* remaining nodes their key plus the number of placed nodes
TieBreakLabels(ordering, final_node_order) ==
    [n \in Range(final_node_order) |->
        (CHOOSE j \in DOMAIN final_node_order : final_node_order[j] = n) - 1]
    @@ [n \in {ordering[k][1] : k \in DOMAIN ordering} |->
        ordering[CHOOSE k \in DOMAIN ordering : ordering[k][1] = n][2]
        + Len(final_node_order)]

\* the strict upper triangle of the adjacency matrix of initial_G
CanonicalMatrix(initial_G, final_node_order) ==
    Dict([i \in 1..Len(final_node_order) |->
        Dict([j \in 1..(Len(final_node_order) - i) |->
            IF has_edge(initial_G, final_node_order[i], final_node_order[i + j])
            THEN 1 ELSE 0])])

(***************************************************************************)
(* The state: the constructor's arguments (G, external_labels), the        *)
(* attributes of the instance under construction (self), the position in   *)
(* the constructor (pc), the local variables of __init__ (counter,         *)
(* new_labels) and of set_canonical_form (ordering, final_node_order, and  *)
(* in iterations, for every iteration of its loop so far: the list as      *)
(* re-sorted at line 244, selected_index after the scan, whether a Servant *)
(* was run, the list the node was taken from and selected_index at the     *)
(* choice), a finished instance kept by the caller (other) and the result  *)
(* of comparing it (cmp), and the arguments and result of a direct call of *)
(* are_new_labels_effectively_the_same (probe, verdict).                   *)
(***************************************************************************)
VARIABLES G, external_labels, self, pc, counter, new_labels, ordering,
          final_node_order, iterations, other, cmp, probe, verdict

engine == <<G, external_labels, self, pc, counter, new_labels, ordering,
            final_node_order, iterations>>

vars == <<engine, other, cmp, probe, verdict>>

\* no instance, no result of a comparison, no arguments and no dict yet
NoInstance == [nodewise |-> "None"]

NoResult == [self_nodewise |-> "None", other_nodewise |-> "None", result |-> 0]

NoProbe == [nodes |-> <<>>, internal_labels |-> <<>>, new_labels |-> <<>>]

NoLabels == <<>>

\* the inputs: graphs on the nodes 0..n-1, the edges listed as G.edges()
\* lists them (each from its endpoint inserted first, grouped by the
\* position of that endpoint), and a label for every node
Pos(seq, x) == CHOOSE i \in DOMAIN seq : seq[i] = x

Perms(S) == {f \in [1..Cardinality(S) -> S] : \A i, j \in DOMAIN f : i # j => f[i] # f[j]}

EdgeLists(nodes) ==
    UNION {Perms(E) :
        E \in {F \in SUBSET {p \in Range(nodes) \X Range(nodes) :
                                Pos(nodes, p[1]) < Pos(nodes, p[2])} :
                  Cardinality(F) <= MaxEdges}}

EdgesGrouped(nodes, edges) ==
    \A i \in 1..(Len(edges) - 1) : Pos(nodes, edges[i][1]) <= Pos(nodes, edges[i + 1][1])

GraphsOn(lists) ==
    {[nodes |-> q[1], edges |-> q[2]] :
        q \in {r \in UNION {{<<ns, es>> : es \in EdgeLists(ns)} : ns \in lists} :
                  EdgesGrouped(r[1], r[2])}}

\* the graphs whose nodes were inserted in the order of their identifiers
Graphs == GraphsOn({[i \in 1..n |-> i - 1] : n \in 0..MaxNodes})

Labelings(g) ==
    [Range(g.nodes) -> 0..MaxLabel] \cup {[n \in Range(g.nodes) |-> BigLabel]}

Modes == {"Master", "Servant", "False"}

\* the local variables before the constructor has set them
Locals ==
    /\ counter = 0
    /\ new_labels = NoLabels
    /\ ordering = <<>>
    /\ final_node_order = <<>>
    /\ iterations = <<>>

Init ==
    /\ G \in Graphs
    /\ external_labels \in Labelings(G)
    /\ \E nodewise \in Modes : self = [nodewise |-> nodewise]
    /\ pc = "new"
    /\ Locals
    /\ other = NoInstance
    /\ cmp = NoResult
    /\ probe = NoProbe
    /\ verdict = FALSE

(***************************************************************************)
(* __init__ up to the refinement loop (lines 5-45).  max() of an empty     *)
(* list raises ValueError: in expand_graph for a nodewise instance, in the *)
(* computation of higher_than_any_internal_label for a plain one.          *)
(***************************************************************************)
\* the attributes of a nodewise instance at line 45; x is the expanded graph
NodewiseStart(nodewise, initial_G, x) ==
    [nodewise |-> nodewise,
     initial_nodes |-> initial_G.nodes,
     initial_G |-> initial_G,
     nodes |-> x.nodes,
     mapping_to_neighbors |-> x.mapping_to_neighbors,
     internal_labels |-> x.external_labels,
     external_labels |-> x.external_labels,
     higher_than_any_internal_label |-> HigherThanAny(x.nodes, x.external_labels),
     label_definitions |-> <<>>,
     nodewise_overlays |->
         InitialOverlays(x.nodes, x.mapping_to_neighbors, x.external_labels)]

\* the attributes of a plain instance at line 45
PlainStart(graph, labels) ==
    [nodewise |-> "False",
     nodes |-> graph.nodes,
     mapping_to_neighbors |-> NeighborsOf(graph),
     internal_labels |-> Dict([n \in Range(graph.nodes) |-> labels[n]]),
     external_labels |-> Dict([n \in Range(graph.nodes) |-> labels[n]]),
     higher_than_any_internal_label |-> HigherThanAny(graph.nodes, labels),
     label_definitions |-> <<>>]

Construct ==
    /\ pc = "new"
    /\ IF G.nodes = <<>>
       THEN /\ pc' = "error"
            /\ self' = self
       ELSE /\ pc' = "refine"
            /\ self' = IF IsNodewise(self.nodewise)
                       THEN NodewiseStart(self.nodewise, G, expand_graph(G, external_labels))
                       ELSE PlainStart(G, external_labels)
    /\ UNCHANGED <<G, external_labels, counter, new_labels, ordering, final_node_order,
                   iterations, other, cmp, probe, verdict>>

(***************************************************************************)
(* One round of the refinement loop (lines 48-56), and when it breaks      *)
(* lines 58-62: label_pairings for an instance that is not the Master.     *)
(***************************************************************************)
\* what get_new_ids_in_order and assign_new_labels_for_sorted_ids compute
Round ==
    IF IsNodewise(self.nodewise)
    THEN NodewiseRound(self.nodes, self.mapping_to_neighbors, self.internal_labels,
                       self.higher_than_any_internal_label, self.nodewise_overlays)
    ELSE PlainRound(self.nodes, self.mapping_to_neighbors, self.internal_labels)

\* the attributes the two calls leave behind whether or not the loop breaks
AfterRound(r) ==
    IF IsNodewise(self.nodewise)
    THEN [self EXCEPT !.label_definitions = r.label_definitions,
                      !.nodewise_overlays = r.nodewise_overlays]
    ELSE [self EXCEPT !.label_definitions = r.label_definitions]

RoundDone(r) ==
    /\ new_labels' = r.new_labels
    /\ IF are_new_labels_effectively_the_same(self.nodes, self.internal_labels, r.new_labels)
       THEN /\ counter' = counter
            /\ IF self.nodewise = "Master"
               THEN /\ self' = AfterRound(r)
                    /\ pc' = "set_canonical_form"
               ELSE /\ self' = [label_pairings |->
                                    LabelPairings(self.nodes, self.internal_labels,
                                                  self.external_labels)]
                                @@ AfterRound(r)
                    /\ pc' = "done"
       ELSE /\ counter' = counter + 1
            /\ self' = [AfterRound(r) EXCEPT !.internal_labels = r.new_labels]
            /\ pc' = "refine"

RefineRound ==
    /\ pc = "refine"
    /\ RoundDone(Round)
    /\ UNCHANGED <<G, external_labels, ordering, final_node_order,
                   iterations, other, cmp, probe, verdict>>

(***************************************************************************)
(* set_canonical_form, lines 233-239: the first node of the order.         *)
(***************************************************************************)
FirstChosen(sorted) ==
    /\ final_node_order' = <<sorted[1][1]>>
    /\ ordering' = Tail(sorted)

FirstNode ==
    /\ pc = "set_canonical_form"
    /\ FirstChosen(further_sort([i \in 1..Len(self.initial_nodes) |->
                                    <<self.initial_nodes[i], 0>>],
                                self.internal_labels))
    /\ pc' = IF Len(self.initial_nodes) > 1 THEN "order" ELSE "matrix"
    /\ UNCHANGED <<G, external_labels, self, counter, new_labels, iterations,
                   other, cmp, probe, verdict>>

(***************************************************************************)
(* One iteration of the ordering loop (lines 240-274).                     *)
(***************************************************************************)
\* a variant that pops the head of the list whatever selected_index is
PoppedHead(list, index) ==
    IF Len(list) > 1 THEN Tail(list) ELSE list

\* ordering.pop(selected_index), which the source skips on a list of one
Popped(list, index) ==
    IF Len(list) > 1
    THEN SubSeq(list, 1, index) \o SubSeq(list, index + 2, Len(list))
    ELSE list

\* lines 270-274: the node at index of list is appended to the order
Chosen(resorted, scanned, recursed, list, index) ==
    /\ iterations' = Append(iterations,
                            [resorted |-> resorted,
                             scanned_index |-> scanned,
                             more_refined |-> recursed,
                             refined |-> list,
                             selected_index |-> index])
    /\ final_node_order' = Append(final_node_order, list[index + 1][1])
    /\ ordering' = Popped(list, index)

\* lines 261-267: the recursive tie-break, when the scan asks for it
TieBreak(resorted, scanned) ==
    IF NeedsTieBreak(resorted, scanned)
    THEN Chosen(resorted, scanned, TRUE,
                further_sort(resorted,
                    ServantInstance(self.initial_G,
                        TieBreakLabels(resorted, final_node_order)).internal_labels),
                0)
    ELSE Chosen(resorted, scanned, FALSE, resorted, scanned)

\* lines 246-256: the scan over the list re-sorted at line 244
Scan(resorted) == TieBreak(resorted, SkipTies(resorted, 0))

OrderIteration ==
    /\ pc = "order"
    /\ Scan(further_sort(ordering,
                         self.nodewise_overlays[final_node_order[Len(final_node_order)]]))
    /\ pc' = IF Len(final_node_order) + 1 = Len(self.initial_nodes)
             THEN "matrix" ELSE "order"
    /\ UNCHANGED <<G, external_labels, self, counter, new_labels,
                   other, cmp, probe, verdict>>

(***************************************************************************)
(* set_canonical_form, lines 278-290: the matrix and the ordered labels.   *)
(***************************************************************************)
BuildMatrix ==
    /\ pc = "matrix"
    /\ self' = [final_node_order |-> final_node_order,
                ordered_labels |-> Dict([i \in 1..Len(final_node_order) |->
                                            self.external_labels[final_node_order[i]]]),
                matrix |-> CanonicalMatrix(self.initial_G, final_node_order)]
               @@ self
    /\ pc' = "done"
    /\ UNCHANGED <<G, external_labels, counter, new_labels, ordering, final_node_order,
                   iterations, other, cmp, probe, verdict>>

Next ==
    \/ Construct
    \/ RefineRound
    \/ FirstNode
    \/ OrderIteration
    \/ BuildMatrix

Spec == Init /\ [][Next]_vars

(***************************************************************************)
(* A caller that builds two instances and compares them, as a test of the  *)
(* canonical form does: the first instance on G, the second on a relabeled *)
(* copy of G (the nodes renamed by a permutation and inserted in any       *)
(* order) or on G itself in the other mode, then full_comparison of the    *)
(* two in either argument order.                                           *)
(***************************************************************************)
PairModes == {"Master", "False"}

\* the presentations of the copy of graph with its nodes renamed by pi
Renamed(graph, pi) ==
    {g \in GraphsOn(Perms(Range(graph.nodes))) :
        {Range(g.edges[i]) : i \in DOMAIN g.edges}
            = {{pi[graph.edges[i][1]], pi[graph.edges[i][2]]} : i \in DOMAIN graph.edges}}

\* the labels carried along with the nodes
RenamedLabels(graph, labels, pi) ==
    [m \in Range(graph.nodes) |-> labels[CHOOSE n \in Range(graph.nodes) : pi[n] = m]]

NodePerms(graph) ==
    {pi \in [Range(graph.nodes) -> Range(graph.nodes)] :
        \A a, b \in Range(graph.nodes) : a # b => pi[a] # pi[b]}

InitCompare ==
    /\ G \in GraphsOn({[i \in 1..n |-> i - 1] : n \in 1..MaxPairNodes})
    /\ external_labels \in Labelings(G)
    /\ \E nodewise \in PairModes : self = [nodewise |-> nodewise]
    /\ pc = "new"
    /\ Locals
    /\ other = NoInstance
    /\ cmp = NoResult
    /\ probe = NoProbe
    /\ verdict = FALSE

\* the caller keeps the finished instance and constructs one of the same
\* mode on a relabeled copy of the graph
ConstructRelabeled ==
    /\ pc = "done"
    /\ other = NoInstance
    /\ other' = self
    /\ \E pi \in NodePerms(G) :
          /\ G' \in Renamed(G, pi)
          /\ external_labels' = RenamedLabels(G, external_labels, pi)
    /\ self' = [nodewise |-> self.nodewise]
    /\ pc' = "new"
    /\ counter' = 0
    /\ new_labels' = NoLabels
    /\ ordering' = <<>>
    /\ final_node_order' = <<>>
    /\ iterations' = <<>>
    /\ UNCHANGED <<cmp, probe, verdict>>

\* the caller keeps the finished instance and constructs one of the other
\* mode on the same graph
ConstructOtherMode ==
    /\ pc = "done"
    /\ other = NoInstance
    /\ other' = self
    /\ self' = [nodewise |-> IF self.nodewise = "Master" THEN "False" ELSE "Master"]
    /\ pc' = "new"
    /\ counter' = 0
    /\ new_labels' = NoLabels
    /\ ordering' = <<>>
    /\ final_node_order' = <<>>
    /\ iterations' = <<>>
    /\ UNCHANGED <<G, external_labels, cmp, probe, verdict>>

\* other.full_comparison(self) or self.full_comparison(other)
Compare ==
    /\ pc = "done"
    /\ other # NoInstance
    /\ cmp = NoResult
    /\ \E first \in {"self", "other"} :
          cmp' = IF first = "self"
                 THEN [self_nodewise |-> self.nodewise, other_nodewise |-> other.nodewise,
                       result |-> full_comparison(self, other)]
                 ELSE [self_nodewise |-> other.nodewise, other_nodewise |-> self.nodewise,
                       result |-> full_comparison(other, self)]
    /\ UNCHANGED <<engine, other, probe, verdict>>

NextCompare ==
    \/ Next
    \/ ConstructRelabeled
    \/ ConstructOtherMode
    \/ Compare

SpecCompare == InitCompare /\ [][NextCompare]_vars

(***************************************************************************)
(* A direct call of are_new_labels_effectively_the_same on an instance     *)
(* whose nodes, internal_labels and new_labels are any node list and any   *)
(* two labelings of it.                                                    *)
(***************************************************************************)
ProbeInputs ==
    UNION {[nodes : Perms(0..(n - 1)),
            internal_labels : [0..(n - 1) -> 0..MaxProbeLabel],
            new_labels : [0..(n - 1) -> 0..MaxProbeLabel]] : n \in 0..MaxProbeNodes}

InitFixpoint ==
    /\ G = [nodes |-> <<>>, edges |-> <<>>]
    /\ external_labels = <<>>
    /\ self = [nodewise |-> "False"]
    /\ pc = "probe"
    /\ Locals
    /\ other = NoInstance
    /\ cmp = NoResult
    /\ probe \in ProbeInputs
    /\ verdict = FALSE

FixpointTest ==
    /\ pc = "probe"
    /\ verdict' = are_new_labels_effectively_the_same(probe.nodes, probe.internal_labels,
                                                      probe.new_labels)
    /\ pc' = "probed"
    /\ UNCHANGED <<G, external_labels, self, counter, new_labels, ordering,
                   final_node_order, iterations, other, cmp, probe>>

SpecFixpoint == InitFixpoint /\ [][FixpointTest]_vars

(***************************************************************************)
(* A caller that canonicalizes two graphs of its choice, one after the     *)
(* other, and compares the two top-level results.                          *)
(***************************************************************************)
\* the non-empty graphs, each edge set in one presentation (G.edges() in
\* the order of the endpoints)
PairGraphs ==
    {g \in Graphs :
        /\ g.nodes # <<>>
        /\ \A i \in 1..(Len(g.edges) - 1) :
               CmpIntSeq(g.edges[i], g.edges[i + 1]) = -1}

\* every labeling of a graph of up to MaxMixedNodes nodes; the uniform
\* labelings of a larger one
PairLabelings(g) ==
    {l \in Labelings(g) : Len(g.nodes) <= MaxMixedNodes \/ Cardinality(Range(l)) = 1}

InitPair ==
    /\ G \in PairGraphs
    /\ external_labels \in PairLabelings(G)
    /\ self = [nodewise |-> "Master"]
    /\ pc = "new"
    /\ Locals
    /\ other = NoInstance
    /\ cmp = NoResult
    /\ probe = NoProbe
    /\ verdict = FALSE

\* the caller keeps the finished instance and constructs a top-level
\* instance on another graph with as many nodes of every label (for any
\* other second graph the two ordered_labels differ and decide the
\* comparison before the matrices are looked at)
ConstructOtherGraph ==
    /\ pc = "done"
    /\ other = NoInstance
    /\ other' = self
    /\ G' \in {g \in PairGraphs : Len(g.nodes) = Len(G.nodes)}
    /\ external_labels' \in
           {l \in PairLabelings(G') :
               \A v \in Range(external_labels) \cup Range(l) :
                   Cardinality({n \in DOMAIN l : l[n] = v})
                       = Cardinality({n \in DOMAIN external_labels :
                                         external_labels[n] = v})}
    /\ self' = [nodewise |-> "Master"]
    /\ pc' = "new"
    /\ counter' = 0
    /\ new_labels' = NoLabels
    /\ ordering' = <<>>
    /\ final_node_order' = <<>>
    /\ iterations' = <<>>
    /\ UNCHANGED <<cmp, probe, verdict>>

NextPair ==
    \/ Next
    \/ ConstructOtherGraph
    \/ Compare

SpecPair == InitPair /\ [][NextPair]_vars

(***************************************************************************)
(* The claims.                                                             *)
(***************************************************************************)
\* the nodes of the input graph that are adjacent in it
Adjacent(u, v) == \E i \in DOMAIN G.edges : Range(G.edges[i]) = {u, v}

\* the number of positions of seq whose node carries the label v
Count(labels, seq, v) == Cardinality({i \in DOMAIN seq : labels[seq[i]] = v})

\* the number of distinct labels of a labeling
Distinct(labels) == Cardinality({labels[n] : n \in DOMAIN labels})

\* seq lists every node of the input graph exactly once and nothing else
ListsInputNodes(seq) ==
    /\ Len(seq) = Len(G.nodes)
    /\ Range(seq) = Range(G.nodes)

\* position i of the re-sorted list has a key no neighbour in the list shares
Untied(resorted, i) ==
    /\ i = 1 \/ resorted[i - 1][2] # resorted[i][2]
    /\ i = Len(resorted) \/ resorted[i + 1][2] # resorted[i][2]

\* the head of the re-sorted list shares its key with its successor
HeadTied(resorted) == Len(resorted) > 1 /\ resorted[1][2] = resorted[2][2]

\* C1: isomorphism invariance.  Whenever the caller has compared two Master
\* instances, the second built on a relabeled copy of the graph of the first
\* (nodes renamed, labels carried along, any insertion order),
\* full_comparison returned 0: same ordered_labels and same matrix.
C1_IsomorphismInvariance ==
    (cmp # NoResult /\ cmp.self_nodewise = "Master" /\ cmp.other_nodewise = "Master")
        => /\ cmp.result = 0
           /\ self.ordered_labels = other.ordered_labels
           /\ self.matrix = other.matrix

\* C2: label-respecting.  Between the iterations of the ordering loop of a
\* top-level run, the nodes placed so far followed by the remaining
\* candidates list every node of the input graph exactly once (and no edge
\* node); after the loop and after the run, final_node_order does, and every
\* label value occurs in ordered_labels as often as among the input's
\* external labels.
C2_LabelRespecting ==
    /\ pc = "order"
           => ListsInputNodes(final_node_order
                              \o [k \in DOMAIN ordering |-> ordering[k][1]])
    /\ pc = "matrix" => ListsInputNodes(final_node_order)
    /\ (pc = "done" /\ self.nodewise = "Master")
           => /\ self.final_node_order = final_node_order
              /\ ListsInputNodes(self.final_node_order)
              /\ Len(self.ordered_labels) = Len(G.nodes)
              /\ \A v \in Range(self.ordered_labels) \cup Range(external_labels) :
                     Cardinality({i \in DOMAIN self.ordered_labels :
                                     self.ordered_labels[i] = v})
                         = Count(external_labels, G.nodes, v)

\* a finished top-level run on a graph with an edge whose ordering loop took
\* all three branches: an untied head, a skipped run of ties, a Servant run
C2_Witness ==
    /\ pc = "done"
    /\ self.nodewise = "Master"
    /\ G.edges # <<>>
    /\ \E k \in DOMAIN iterations :
           ~iterations[k].more_refined /\ iterations[k].selected_index > 0
    /\ \E k \in DOMAIN iterations : iterations[k].more_refined
    /\ \E k \in DOMAIN iterations :
           ~iterations[k].more_refined /\ iterations[k].selected_index = 0

\* C3: matrix validity.  In the top-level result the matrix has one row per
\* position of final_node_order, row i has as many entries as there are
\* positions after i, and the entry for positions i < j is 1 when the two
\* nodes are adjacent in the input graph and 0 when they are not.
C3_MatrixValidity ==
    (pc = "done" /\ self.nodewise = "Master")
        => /\ Len(self.matrix) = Len(self.final_node_order)
           /\ \A i \in DOMAIN self.matrix :
                  /\ Len(self.matrix[i]) = Len(self.final_node_order) - i
                  /\ \A j \in (i + 1)..Len(self.final_node_order) :
                         self.matrix[i][j - i]
                             = IF Adjacent(self.final_node_order[i],
                                           self.final_node_order[j])
                               THEN 1 ELSE 0

\* a finished top-level run whose order puts an edge's endpoints against the
\* orientation the input lists it in, with a 0 entry in the matrix as well
C3_Witness ==
    /\ pc = "done"
    /\ self.nodewise = "Master"
    /\ \E i \in DOMAIN self.matrix : \E j \in DOMAIN self.matrix[i] :
           /\ self.matrix[i][j] = 1
           /\ \E e \in DOMAIN G.edges :
                  G.edges[e] = <<self.final_node_order[i + j], self.final_node_order[i]>>
    /\ \E i \in DOMAIN self.matrix : \E j \in DOMAIN self.matrix[i] :
           self.matrix[i][j] = 0

\* C4: the empty graph.  No step of the construction reaches an error state
\* on a graph with zero nodes, and a finished top-level run on it has an
\* empty node order, empty ordered_labels and an empty matrix.
C4_EmptyGraphCompletes ==
    G.nodes = <<>>
        => /\ pc # "error"
           /\ (pc = "done" /\ self.nodewise = "Master")
                  => /\ self.final_node_order = <<>>
                     /\ self.ordered_labels = <<>>
                     /\ self.matrix = <<>>

\* C5: a comparison of a top-level (nodewise) instance with a plain one, in
\* either argument order, does not return an ordinary ordering value
\* (-1, 0 or 1).
C5_MixedComparisonAborts ==
    (cmp # NoResult /\ IsNodewise(cmp.self_nodewise) # IsNodewise(cmp.other_nodewise))
        => cmp.result \notin {-1, 0, 1}

\* C6: refinement termination.  In an instance of any mode, a round that
\* does not pass the fixpoint test (the one step that increments counter)
\* strictly increases the number of distinct internal labels; every round
\* either is such a round or is the loop's last; and the number of rounds
\* that did not pass the test stays below the number of nodes of the
\* instance's graph, in the instance and in the plain instances its last
\* round built.  So the loop breaks within that many rounds.
C6_RefinementTerminates ==
    /\ [][/\ counter' = counter + 1
                => Distinct(self'.internal_labels) > Distinct(self.internal_labels)
          /\ pc = "refine" => (pc' # "refine" \/ counter' = counter + 1)]_vars
    /\ [](pc \notin {"new", "error"}
              => /\ counter < Len(self.nodes)
                 /\ IsNodewise(self.nodewise)
                        => \A d \in DOMAIN self.label_definitions :
                               self.label_definitions[d][2].counter < Len(self.nodes))

\* a finished plain instance whose loop took a round that did not pass the
\* fixpoint test
C6_Witness ==
    /\ pc = "done"
    /\ self.nodewise = "False"
    /\ counter >= 1
    /\ Distinct(self.internal_labels) > Distinct(self.external_labels)

\* C7: the partition only splits.  In every round of the refinement loop of
\* an instance of any mode, two nodes with different internal labels never
\* receive the same new label, and the number of distinct internal labels
\* does not decrease.
C7_PartitionOnlySplits ==
    [][(pc = "refine" /\ DOMAIN new_labels' = Range(self.nodes))
           => /\ \A a, b \in Range(self.nodes) :
                     new_labels'[a] = new_labels'[b]
                         => self.internal_labels[a] = self.internal_labels[b]
              /\ Distinct(self'.internal_labels) >= Distinct(self.internal_labels)]_vars

\* a nodewise instance (overlay-driven rounds) that has split a group: after
\* a round, two nodes with the same external label have different labels
C7_Witness ==
    /\ IsNodewise(self.nodewise)
    /\ pc = "refine"
    /\ counter >= 1
    /\ \E a, b \in Range(self.nodes) :
           /\ self.external_labels[a] = self.external_labels[b]
           /\ self.internal_labels[a] # self.internal_labels[b]

\* C8: the fixpoint test.  For every node list and every two labelings of
\* its nodes, are_new_labels_effectively_the_same answers True exactly when
\* the two labelings group the nodes in the same way.
C8_FixpointTest ==
    pc = "probed"
        => (verdict <=> \A a, b \in Range(probe.nodes) :
                            (probe.internal_labels[a] = probe.internal_labels[b])
                                <=> (probe.new_labels[a] = probe.new_labels[b]))

\* the test answered True on two labelings with different values and two
\* groups, the nodes iterated in an order other than that of their ids
C8_Witness ==
    /\ pc = "probed"
    /\ verdict
    /\ probe.nodes = <<2, 0, 1>>
    /\ Distinct(probe.internal_labels) = 2
    /\ \A n \in Range(probe.nodes) : probe.internal_labels[n] # probe.new_labels[n]

\* C9: individualization.  In the overlays built by the constructor of a
\* nodewise instance (before the first refinement round), every node p has
\* in its own overlay a value strictly greater than that of any other node.
C9_Individualized ==
    (pc = "refine" /\ IsNodewise(self.nodewise) /\ new_labels = NoLabels)
        => \A p \in Range(self.nodes) : \A n \in Range(self.nodes) \ {p} :
               self.nodewise_overlays[p][p] > self.nodewise_overlays[p][n]

\* C10 as stated: in every iteration of the ordering loop, the node is
\* chosen without a Servant run only when the head of the re-sorted list is
\* not tied with its successor, and then it is the head; when the head is
\* tied, a Servant is run.
C10_HeadDecides ==
    \A k \in DOMAIN iterations :
        /\ iterations[k].more_refined <=> HeadTied(iterations[k].resorted)
        /\ iterations[k].selected_index = 0

\* C10, amended: in every iteration of the ordering loop a Servant is run
\* exactly when no candidate of the re-sorted list is untied (every key is
\* shared with a neighbour in the list); then the node chosen is the head of
\* the list re-sorted with the Servant's labels.  Otherwise the node chosen,
\* without a Servant run, is the first untied candidate of the re-sorted
\* list, which is the head only when the head is untied.
C10_TieBreakTrigger ==
    \A k \in DOMAIN iterations :
        /\ iterations[k].more_refined
               <=> \A i \in DOMAIN iterations[k].resorted :
                       ~Untied(iterations[k].resorted, i)
        /\ iterations[k].more_refined
               => /\ iterations[k].selected_index = 0
                  /\ {iterations[k].refined[i][1] : i \in DOMAIN iterations[k].refined}
                         = {iterations[k].resorted[i][1] :
                                i \in DOMAIN iterations[k].resorted}
        /\ ~iterations[k].more_refined
               => /\ iterations[k].refined = iterations[k].resorted
                  /\ Untied(iterations[k].resorted, iterations[k].selected_index + 1)
                  /\ \A i \in 1..iterations[k].selected_index :
                         ~Untied(iterations[k].resorted, i)
        /\ final_node_order[k + 1]
               = iterations[k].refined[iterations[k].selected_index + 1][1]

\* a run with an iteration that passed over a tied head to a later untied
\* candidate without a Servant run, and an iteration that ran a Servant
C10_Witness ==
    /\ \E k \in DOMAIN iterations :
           /\ HeadTied(iterations[k].resorted)
           /\ ~iterations[k].more_refined
           /\ iterations[k].selected_index > 0
    /\ \E k \in DOMAIN iterations :
           /\ iterations[k].more_refined
           /\ HeadTied(iterations[k].resorted)

\* the edges of a graph as a set of unordered pairs
EdgeSet(g) == {Range(g.edges[i]) : i \in DOMAIN g.edges}

\* the map order_a[i] -> order_b[i] is a label-preserving isomorphism from
\* graph a with labels labels_a onto graph b with labels labels_b
IsomorphicBy(a, labels_a, order_a, b, labels_b, order_b) ==
    /\ Len(order_a) = Len(a.nodes)
    /\ Len(order_b) = Len(b.nodes)
    /\ Len(order_a) = Len(order_b)
    /\ Range(order_a) = Range(a.nodes)
    /\ Range(order_b) = Range(b.nodes)
    /\ \A i \in DOMAIN order_a : labels_a[order_a[i]] = labels_b[order_b[i]]
    /\ \A i, j \in DOMAIN order_a :
           ({order_a[i], order_a[j]} \in EdgeSet(a))
               <=> ({order_b[i], order_b[j]} \in EdgeSet(b))

\* C11: soundness of the equality verdict.  Whenever the caller has compared
\* the finished top-level runs on two labeled graphs A and B and
\* full_comparison returned 0, the map final_node_order_A[i] ->
\* final_node_order_B[i] is a label-preserving isomorphism from A onto B; so
\* two graphs that are not isomorphic (the star K1,3 and the path P4 among
\* them) never compare equal.
C11_EqualImpliesIsomorphic ==
    (cmp # NoResult /\ cmp.result = 0)
        => IsomorphicBy(other.initial_G, other.external_labels, other.final_node_order,
                        G, external_labels, self.final_node_order)

\* two different paths on four nodes (three edges, every node on one or two
\* of them) compared equal
C11_Witness ==
    /\ cmp # NoResult
    /\ cmp.result = 0
    /\ Len(G.nodes) = 4
    /\ Len(G.edges) = 3
    /\ EdgeSet(G) # EdgeSet(other.initial_G)
    /\ \A n \in Range(G.nodes) :
           Cardinality({e \in EdgeSet(G) : n \in e}) \in {1, 2}

====
